---------------------------- MODULE Spec2Model ----------------------------
(***************************************************************************)
(* A model of the bouncing-ball simulation (CircleSimulation.ts) and of    *)
(* the collision-driven audio segment player (AudioManager).               *)
(*                                                                         *)
(* Numbers.  JavaScript numbers are modelled in fixed point: lengths and   *)
(* velocities are integers counting 1/Scale of a pixel, and the unitless   *)
(* factors (decay, growth, restitution, the collision normal) are integers *)
(* counting 1/Ratio.  Every product is rounded to the nearest unit.  The   *)
(* IEEE value NaN is the distinguished value NaN, which every arithmetic   *)
(* helper propagates and every comparison rejects, as in JavaScript.       *)
(*                                                                         *)
(* Time.  audioContext.currentTime and the segment durations count 1/100   *)
(* of a second; a buffer holds SampleRate samples per second.              *)
(***************************************************************************)
EXTENDS Integers, Sequences, FiniteSets, TLC

\* ------------------------------------------------------------------ bounds
\* requestAnimationFrame handles handed out in one run (one per tick)
MaxFrames == 80
\* pointer events and setter calls are explored while at most this many
\* frames have been requested
InteractionFrames == 0
\* calls of processAudioFile in flight at once
MaxCalls == 2
\* the player: tracks uploaded, calls of playNextSegment, the audio clock
MaxPlayTracks == 1
MaxTriggers == 3
MaxClock == 64
\* the store: tracks held
MaxStoreTracks == 11
\* the segment duration field: tracks held
MaxDurationTracks == 2
\* batch recording: the sessions of all the batches together
MaxBatchSessions == 3
\* the loop: ticks
MaxLoopFrames == 4
\* the removal of tracks: tracks held, calls of playNextSegment, the audio
\* clock
MaxRemoveTracks == 2
MaxRemoveTriggers == 2
MaxRemoveClock == 27
\* the recorder: recorders made, calls of stopRecording, ticks
MaxRecorders == 2
MaxStops == 2
MaxRecordFrames == 2
\* the segmentation: tracks held, calls of reprocessTracks in flight at once
MaxSegmentTracks == 2
MaxReprocessing == 1

\* -------------------------------------------------------------- numerics
Scale == 100
Ratio == Scale * Scale
NaN == -2000000000

IsNaN(a) == a = NaN

Min(a, b) == IF a < b THEN a ELSE b

\* a / b rounded to the nearest integer (b > 0)
RDiv(a, b) == (2 * a + b) \div (2 * b)

FAdd(a, b) == IF IsNaN(a) \/ IsNaN(b) THEN NaN ELSE a + b

FSub(a, b) == IF IsNaN(a) \/ IsNaN(b) THEN NaN ELSE a - b

\* a * q for a factor q counted in 1/Ratio
FMul(a, q) == IF IsNaN(a) \/ IsNaN(q) THEN NaN ELSE RDiv(a * q, Ratio)

\* a / b as a factor counted in 1/Ratio; 0/0 is NaN
FDiv(a, b) ==
  IF IsNaN(a) \/ IsNaN(b) THEN NaN
  ELSE IF b = 0 THEN NaN
  ELSE RDiv(a * Ratio, b)

RECURSIVE SqrtIter(_, _)
SqrtIter(n, x) ==
  LET y == (x + n \div x) \div 2
  IN  IF y >= x THEN x ELSE SqrtIter(n, y)

\* Math.sqrt on a non-negative integer, rounded down
Sqrt(n) == IF n < 2 THEN n ELSE SqrtIter(n, Min(n, 46340))

Abs(a) == IF a < 0 THEN -a ELSE a

\* sqrt(a * a + b * b) within the 32-bit range of the checker: the operands
\* are halved until the squares fit
RECURSIVE Norm(_, _)
Norm(a, b) ==
  IF Abs(a) < 32768 /\ Abs(b) < 32768
  THEN Sqrt(a * a + b * b)
  ELSE 2 * Norm(a \div 2, b \div 2)

\* Math.sqrt(a * a + b * b)
Hypot(a, b) == IF IsNaN(a) \/ IsNaN(b) THEN NaN ELSE Norm(a, b)

\* the JavaScript comparison a >= b, false when either side is NaN
FGeq(a, b) == ~IsNaN(a) /\ ~IsNaN(b) /\ a >= b

\* ------------------------------------------------------------- variables
VARIABLES
  \* CircleSimulation
  running, isDragging, animationId, pendingFrames, frameCount,
  GRAVITY, VELOCITY_INCREASE_FACTOR, VELOCITY_DECAY, BALL_GROWTH_RATE,
  ballRadius, ballCenter, ballVelocity, previousPositions, collisionPoints,
  collisionCount,
  \* AudioManager
  audioTracks, currentTrackIndex, segments, currentSegmentIndex, isProcessing,
  currentSource, isPlaying, segmentDuration, lastPlayStartTime,
  \* the AudioContext and its source nodes
  currentTime, contextState, sources, sourceCount,
  \* calls of the async methods that are suspended at an await
  uploads, resuming, reprocessing,
  \* what the callers observe
  thrown, started, triggers,
  \* where the track last removed stood: before, at or after the active one
  lastRemoval,
  \* CircleSimulation: recording
  mediaRecorder, chunks, onRecordingComplete,
  \* the MediaRecorder objects, and what the callers observe of them
  recorders, recorderCount, completions, stops,
  \* App: the batch flag, recordingCountRef.current, and the call of
  \* startBatchRecording that is suspended at an await, with its count
  isRecordingBatch, recordingCountRef, batch

simVars ==
  << running, isDragging, animationId, pendingFrames, frameCount,
     GRAVITY, VELOCITY_INCREASE_FACTOR, VELOCITY_DECAY, BALL_GROWTH_RATE,
     ballRadius, ballCenter, ballVelocity, previousPositions, collisionPoints,
     collisionCount >>

audioVars ==
  << audioTracks, currentTrackIndex, segments, currentSegmentIndex,
     isProcessing, currentSource, isPlaying, segmentDuration,
     lastPlayStartTime, currentTime, contextState, sources, sourceCount,
     uploads, resuming, reprocessing, thrown, started, triggers,
     lastRemoval >>

recordingVars ==
  << mediaRecorder, chunks, onRecordingComplete, recorders, recorderCount,
     completions, stops >>

batchVars == << isRecordingBatch, recordingCountRef, batch >>

vars == << simVars, audioVars, recordingVars, batchVars >>

\* ------------------------------------------------- CircleSimulation: data
WIDTH == 1080
HEIGHT == 1920
INITIAL_BALL_RADIUS == 5 * Scale
CIRCLE_RADIUS == (Min(WIDTH, HEIGHT) * Scale) \div 2 - 125 * Scale
MAX_BALL_RADIUS == (CIRCLE_RADIUS * 15) \div 10
MOTION_BLUR_STEPS == 5
MAX_COLLISION_POINTS == 50
circleCenter == << (WIDTH * Scale) \div 2, (HEIGHT * Scale) \div 2 >>
restitution == (95 * Ratio) \div 100
minVelocity == Scale

\* reset(): the ball at (WIDTH / 2, HEIGHT / 2.7) with velocity (0.8, 0.8)
\* the reset centre at a third of the height in place of HEIGHT / 2.7
ResetCenterAtThird == << (WIDTH * Scale) \div 2, RDiv(HEIGHT * Scale, 3) >>
\* reset: [WIDTH / 2, HEIGHT / 2.7]
ResetCenter == << (WIDTH * Scale) \div 2, RDiv(HEIGHT * Scale * 10, 27) >>
ResetVelocity == << (8 * Scale) \div 10, (8 * Scale) \div 10 >>

\* ----------------------------------------------- CircleSimulation: update
\* a slip of PushBounded: pop() instead of shift() evicts the newest entry
PushEvictingNewest(buf, e, cap) ==
  IF Len(buf) >= cap THEN Append(SubSeq(buf, 1, Len(buf) - 1), e)
  ELSE Append(buf, e)

\* a bounded history: shift() the oldest entry of a full buffer, then push
PushBounded(buf, e, cap) ==
  IF Len(buf) >= cap THEN Append(Tail(buf), e) ELSE Append(buf, e)

\* a slip of GrowBall: the growth without the clamp at MAX_BALL_RADIUS
GrowBallUnclamped(r, rate) == FMul(r, rate)

\* "Grow ball"
GrowBall(r, rate) ==
  IF r < MAX_BALL_RADIUS THEN Min(FMul(r, rate), MAX_BALL_RADIUS) ELSE r

\* "Ensure minimum velocity".  currentVelocity is 0 only for the velocity
\* (0, 0): scale is then 1 / 0 = Infinity and 0 * Infinity is NaN.
EnsureMinimumVelocity(v) ==
  LET currentVelocity == Hypot(v[1], v[2])
      scale == FDiv(minVelocity, currentVelocity)
  IN  IF ~IsNaN(currentVelocity) /\ currentVelocity < minVelocity
      THEN << IF IsNaN(scale) THEN NaN ELSE FMul(v[1], scale),
              IF IsNaN(scale) THEN NaN ELSE FMul(v[2], scale) >>
      ELSE v

\* Math.cos(Math.atan2(dy, dx)) and Math.sin(Math.atan2(dy, dx)); atan2(0, 0)
\* is 0
CosAngle(dx, dy, distance) == IF distance = 0 THEN Ratio ELSE FDiv(dx, distance)
SinAngle(dx, dy, distance) == IF distance = 0 THEN 0 ELSE FDiv(dy, distance)

\* the collision test of update()
Colliding(distance, r) == FGeq(distance, CIRCLE_RADIUS - r)

\* update(): the physics state after one tick, and whether it collided
Update(center, velocity, radius, trail, decals) ==
  LET trail1 == PushBounded(trail, center, MOTION_BLUR_STEPS)
      vy0 == FAdd(velocity[2], GRAVITY)
      vx1 == FMul(velocity[1], VELOCITY_DECAY)
      vy1 == FMul(vy0, VELOCITY_DECAY)
      x1 == FAdd(center[1], vx1)
      y1 == FAdd(center[2], vy1)
      dx == FSub(x1, circleCenter[1])
      dy == FSub(y1, circleCenter[2])
      distance == Hypot(dx, dy)
      nx == FDiv(dx, distance)
      ny == FDiv(dy, distance)
      dot == FAdd(FMul(vx1, nx), FMul(vy1, ny))
      rx == FMul(FSub(vx1, FMul(FAdd(dot, dot), nx)), restitution)
      ry == FMul(FSub(vy1, FMul(FAdd(dot, dot), ny)), restitution)
      radius1 == GrowBall(radius, BALL_GROWTH_RATE)
      bx == FMul(rx, VELOCITY_INCREASE_FACTOR)
      by == FMul(ry, VELOCITY_INCREASE_FACTOR)
      v2 == EnsureMinimumVelocity(<< bx, by >>)
      cosA == CosAngle(dx, dy, distance)
      sinA == SinAngle(dx, dy, distance)
      point == << FAdd(circleCenter[1], FMul(CIRCLE_RADIUS, cosA)),
                  FAdd(circleCenter[2], FMul(CIRCLE_RADIUS, sinA)) >>
      decals1 == PushBounded(decals, point, MAX_COLLISION_POINTS)
      center2 ==
        << FAdd(circleCenter[1], FMul(CIRCLE_RADIUS - radius1, cosA)),
           FAdd(circleCenter[2], FMul(CIRCLE_RADIUS - radius1, sinA)) >>
  IN  IF Colliding(distance, radius)
      THEN [center |-> center2, velocity |-> v2, radius |-> radius1,
            trail |-> trail1, decals |-> decals1, collided |-> TRUE]
      ELSE [center |-> << x1, y1 >>, velocity |-> << vx1, vy1 >>,
            radius |-> radius, trail |-> trail1, decals |-> decals,
            collided |-> FALSE]

\* ------------------------------------------------------ AudioManager: data
MAX_TRACKS == 10
\* audioBuffer.sampleRate of every decoded buffer, in samples per second
SampleRate == 10
\* the declared types isValidAudioFormat accepts
validTypes == {"audio/mp3", "audio/mpeg", "audio/wav", "audio/ogg"}

\* a File: its declared type, and the buffer decodeAudioData makes of it
\* (length in samples) unless it rejects the bytes
FileA == [name |-> 1, type |-> "audio/mpeg", length |-> 10, decodable |-> TRUE]
FileB == [name |-> 2, type |-> "audio/wav", length |-> 4, decodable |-> TRUE]
FileCorrupt ==
  [name |-> 3, type |-> "audio/ogg", length |-> 0, decodable |-> FALSE]
FileText ==
  [name |-> 4, type |-> "text/plain", length |-> 0, decodable |-> FALSE]
NoFile == [name |-> 0, type |-> "", length |-> 0, decodable |-> FALSE]

\* decodeAudioData: sample i of file f is the value f.name * 100 + i
Decode(file) == [i \in 1 .. file.length |-> file.name * 100 + i]

\* a format test that lets every declared type through
isValidAudioFormatOfAnyType(file) == file.type = file.type
\* isValidAudioFormat(file)
isValidAudioFormat(file) == file.type \in validTypes

\* buffer.duration in 1/100 s
BufferDuration(buffer) == (Len(buffer) * 100) \div SampleRate

\* splitAudioIntoSegments from position i on.  i and samplesPerSegment count
\* 1/100 of a sample (segmentDuration * sampleRate need not be whole):
\* createBuffer and slice truncate their arguments, createBuffer rejects the
\* length 0 and TypedArray.set rejects a source longer than its target.
RECURSIVE SplitFrom(_, _, _, _)
SplitFrom(audioBuffer, i, samplesPerSegment, duration) ==
  IF i >= Len(audioBuffer) * 100
  THEN [ok |-> TRUE, segments |-> << >>]
  ELSE
    LET segmentLength == Min(samplesPerSegment, Len(audioBuffer) * 100 - i)
        bufferLength == segmentLength \div 100
        from == i \div 100
        to == Min((i + segmentLength) \div 100, Len(audioBuffer))
        rest == SplitFrom(audioBuffer, i + samplesPerSegment,
                          samplesPerSegment, duration)
    IN  IF bufferLength = 0 \/ to - from > bufferLength \/ ~rest.ok
        THEN [ok |-> FALSE, segments |-> << >>]
        ELSE [ok |-> TRUE,
              segments |->
                << [buffer |-> SubSeq(audioBuffer, from + 1, to),
                    startTime |-> i \div SampleRate,
                    duration |-> duration] >> \o rest.segments]

\* splitAudioIntoSegments(audioBuffer) at the segment duration `duration`
splitAudioIntoSegments(audioBuffer, duration) ==
  SplitFrom(audioBuffer, 0, duration * SampleRate, duration)

\* reprocessTracks: "Reconstruct original audio buffer"
RECURSIVE fullBuffer(_)
fullBuffer(track) ==
  IF track = << >> THEN << >>
  ELSE Head(track).buffer \o fullBuffer(Tail(track))

\* reprocessTracks: the loop skips the tracks without segments
RECURSIVE DropEmpty(_)
DropEmpty(tracks) ==
  IF tracks = << >> THEN << >>
  ELSE IF Len(Head(tracks)) > 0 THEN tracks
  ELSE DropEmpty(Tail(tracks))

\* reprocessTracks from the tracks `rest` on, up to its next await: the call
\* suspended on the split of the next track, or no call when the loop is over
\* or the split throws
ReprocessUpTo(rest, duration) ==
  LET r == DropEmpty(rest)
      res == splitAudioIntoSegments(fullBuffer(Head(r)), duration)
  IN  IF r = << >> THEN << >>
      ELSE IF res.ok THEN << [newSegments |-> res.segments, rest |-> Tail(r)] >>
      ELSE << >>

\* source.stop() on the node currentSource refers to: a node still playing
\* is cut short, a node that has played to its end is left as it is
StopCurrent(nodes, ref) ==
  {IF s.id \in ref /\ currentTime < s.endTime
   THEN [s EXCEPT !.stopped = TRUE] ELSE s : s \in nodes}

\* the first idle slot of `uploads`
FreeSlot == CHOOSE k \in DOMAIN uploads :
              /\ uploads[k].pc = "idle"
              /\ \A j \in DOMAIN uploads : uploads[j].pc = "idle" => k <= j

IdleUpload == [pc |-> "idle", file |-> NoFile, newSegments |-> << >>]

\* --------------------------------------------------- AudioManager: methods
\* the capacity test with the comparison ">" in place of ">="
AtCapacityAbove == Len(audioTracks) > MAX_TRACKS
\* processAudioFile: "this.audioTracks.length >= this.MAX_TRACKS"
AtCapacity == Len(audioTracks) >= MAX_TRACKS

\* the variables processAudioFile never touches
UploadFrame ==
  UNCHANGED << currentTrackIndex, currentSegmentIndex, currentSource,
               isPlaying, segmentDuration, lastPlayStartTime, currentTime,
               contextState, sources, sourceCount, resuming, reprocessing,
               started, triggers,
               lastRemoval >>

\* processAudioFile(file), up to its first await
ProcessAudioFile(file) ==
  /\ UploadFrame
  /\ UNCHANGED << audioTracks, segments >>
  /\ IF ~isValidAudioFormat(file)
     THEN /\ thrown' = "format"
          /\ UNCHANGED << isProcessing, uploads >>
     ELSE IF AtCapacity
     THEN /\ thrown' = "capacity"
          /\ UNCHANGED << isProcessing, uploads >>
     ELSE /\ \E k \in DOMAIN uploads : uploads[k].pc = "idle"
          /\ isProcessing' = TRUE
          /\ uploads' = [uploads EXCEPT
               ![FreeSlot] = [pc |-> "read", file |-> file,
                              newSegments |-> << >>]]
          /\ UNCHANGED thrown

\* processAudioFile: file.arrayBuffer() resolves
UploadRead(k) ==
  /\ uploads[k].pc = "read"
  /\ uploads' = [uploads EXCEPT ![k].pc = "decode"]
  /\ UploadFrame
  /\ UNCHANGED << audioTracks, segments, isProcessing, thrown >>

\* the same with a catch block that leaves isProcessing as it is
UploadDecodedStayingBusy(k) ==
  LET res == splitAudioIntoSegments(Decode(uploads[k].file), segmentDuration)
  IN  /\ uploads[k].pc = "decode"
      /\ UploadFrame
      /\ UNCHANGED << audioTracks, segments, isProcessing >>
      /\ IF uploads[k].file.decodable /\ res.ok
         THEN /\ uploads' = [uploads EXCEPT ![k].pc = "split",
                                            ![k].newSegments = res.segments]
              /\ UNCHANGED thrown
         ELSE /\ uploads' = [uploads EXCEPT ![k] = IdleUpload]
              /\ thrown' = "process"

\* processAudioFile: decodeAudioData settles; the split runs up to its await,
\* and a rejection or a throw lands in the catch block
UploadDecoded(k) ==
  LET res == splitAudioIntoSegments(Decode(uploads[k].file), segmentDuration)
  IN  /\ uploads[k].pc = "decode"
      /\ UploadFrame
      /\ UNCHANGED << audioTracks, segments >>
      /\ IF uploads[k].file.decodable /\ res.ok
         THEN /\ uploads' = [uploads EXCEPT ![k].pc = "split",
                                            ![k].newSegments = res.segments]
              /\ UNCHANGED << isProcessing, thrown >>
         ELSE /\ uploads' = [uploads EXCEPT ![k] = IdleUpload]
              /\ isProcessing' = FALSE
              /\ thrown' = "process"

\* processAudioFile: the segments arrive and the track is pushed
UploadSplit(k) ==
  /\ uploads[k].pc = "split"
  /\ UploadFrame
  /\ audioTracks' = Append(audioTracks, uploads[k].newSegments)
  /\ segments' = IF Len(audioTracks') = 1 THEN uploads[k].newSegments
                 ELSE segments
  /\ isProcessing' = FALSE
  /\ IF contextState = "suspended"
     THEN /\ uploads' = [uploads EXCEPT ![k].pc = "resume"]
          /\ UNCHANGED thrown
     ELSE /\ uploads' = [uploads EXCEPT ![k] = IdleUpload]
          /\ thrown' = "ok"

\* processAudioFile: audioContext.resume() resolves
UploadResumed(k) ==
  /\ uploads[k].pc = "resume"
  /\ contextState = "running"
  /\ uploads' = [uploads EXCEPT ![k] = IdleUpload]
  /\ thrown' = "ok"
  /\ UploadFrame
  /\ UNCHANGED << audioTracks, segments, isProcessing >>

\* playNextSegment from "if (this.currentSource)" on, with the clock value
\* `now` the call read before its await
StartSource(now) ==
  LET index == currentSegmentIndex
      defined == ~IsNaN(index) /\ index >= 0 /\ index < Len(segments)
      segment == segments[index + 1]
      id == sourceCount + 1
  IN  /\ IF defined
         THEN /\ sources' = StopCurrent(sources, currentSource) \cup
                   {[id |-> id, stopped |-> FALSE,
                     endTime |-> currentTime + BufferDuration(segment.buffer)]}
              /\ sourceCount' = id
              /\ lastPlayStartTime' = now
              /\ currentSource' = {id}
              /\ isPlaying' = TRUE
              /\ started' = Append(started,
                   [clock |-> now, index |-> index, buffer |-> segment.buffer])
         ELSE \* segment is undefined: segment.buffer throws, caught below
              /\ sources' = StopCurrent(sources, currentSource)
              /\ isPlaying' = FALSE
              /\ UNCHANGED << sourceCount, lastPlayStartTime, currentSource,
                              started >>
      /\ UNCHANGED << audioTracks, currentTrackIndex, segments,
                      currentSegmentIndex, isProcessing, segmentDuration,
                      currentTime, contextState, uploads, reprocessing,
                      thrown >>

\* the rate limit of playNextSegment
RateLimited(now) == 10 * (now - lastPlayStartTime) < 9 * segmentDuration

\* playNextSegment(), up to its await
PlayNextSegment ==
  /\ UNCHANGED lastRemoval
  /\ triggers' = Append(triggers,
       [clock |-> currentTime,
        ready |-> Len(segments) > 0 /\ ~isProcessing])
  /\ IF Len(segments) = 0 \/ isProcessing \/ RateLimited(currentTime)
     THEN UNCHANGED << audioTracks, currentTrackIndex, segments,
                       currentSegmentIndex, isProcessing, currentSource,
                       isPlaying, segmentDuration, lastPlayStartTime,
                       currentTime, contextState, sources, sourceCount,
                       uploads, resuming, reprocessing, thrown, started >>
     ELSE IF contextState = "suspended"
     THEN /\ resuming' = Append(resuming, currentTime)
          /\ UNCHANGED << audioTracks, currentTrackIndex, segments,
                          currentSegmentIndex, isProcessing, currentSource,
                          isPlaying, segmentDuration, lastPlayStartTime,
                          currentTime, contextState, sources, sourceCount,
                          uploads, reprocessing, thrown, started >>
     ELSE /\ StartSource(currentTime)
          /\ UNCHANGED resuming

\* playNextSegment: audioContext.resume() resolves
PlayResumed ==
  /\ resuming # << >>
  /\ contextState = "running"
  /\ resuming' = Tail(resuming)
  /\ StartSource(Head(resuming))
  /\ UNCHANGED << triggers, lastRemoval >>

\* (a + 1) % n of JavaScript: NaN for n = 0
NextIndex(index, n) ==
  IF IsNaN(index) \/ n = 0 THEN NaN ELSE (index + 1) % n

\* source.onended: the node s has stopped playing, at the end of its buffer
\* or after stop()
SourceEnded(s) ==
  /\ s \in sources
  /\ s.stopped \/ currentTime >= s.endTime
  /\ sources' = sources \ {s}
  /\ isPlaying' = FALSE
  /\ currentSegmentIndex' = NextIndex(currentSegmentIndex, Len(segments))
  /\ UNCHANGED << audioTracks, currentTrackIndex, segments, isProcessing,
                  currentSource, segmentDuration, lastPlayStartTime,
                  currentTime, contextState, sourceCount, uploads, resuming,
                  reprocessing, thrown, started, triggers,
                  lastRemoval >>

\* selectRandomTrack() without the assignment to this.segments
SelectTrackKeepingList(randomIndex) ==
  /\ currentTrackIndex' = randomIndex
  /\ segments' = segments
  /\ currentSegmentIndex' = 0
  /\ lastPlayStartTime' = 0
  /\ sources' = StopCurrent(sources, currentSource)
  /\ currentSource' = {}
  /\ started' = << >>

\* selectRandomTrack() with Math.random() picking the track randomIndex
SelectTrack(randomIndex) ==
  /\ currentTrackIndex' = randomIndex
  /\ segments' = audioTracks'[randomIndex + 1]
  /\ currentSegmentIndex' = 0
  /\ lastPlayStartTime' = 0
  /\ sources' = StopCurrent(sources, currentSource)
  /\ currentSource' = {}
  /\ started' = << >>

selectRandomTrack ==
  /\ UNCHANGED << audioTracks, isProcessing, isPlaying, segmentDuration,
                  currentTime, contextState, sourceCount, uploads, resuming,
                  reprocessing, thrown, triggers,
                  lastRemoval >>
  /\ IF Len(audioTracks) = 0
     THEN UNCHANGED << currentTrackIndex, segments, currentSegmentIndex,
                       lastPlayStartTime, sources, currentSource, started >>
     ELSE \E randomIndex \in 0 .. Len(audioTracks) - 1 :
            SelectTrack(randomIndex)

\* Array.splice(index, 1)
Splice(seq, index) ==
  SubSeq(seq, 1, index) \o SubSeq(seq, index + 2, Len(seq))

\* removeTrack(index) without the shift of the active index
removeTrackKeepingIndex(index) ==
  /\ UNCHANGED << isProcessing, isPlaying, segmentDuration, currentTime,
                  contextState, sourceCount, uploads, resuming, reprocessing,
                  thrown, triggers >>
  /\ IF index < 0 \/ index >= Len(audioTracks)
     THEN UNCHANGED << audioTracks, currentTrackIndex, segments,
                       currentSegmentIndex, lastPlayStartTime, sources,
                       currentSource, started, lastRemoval >>
     ELSE /\ audioTracks' = Splice(audioTracks, index)
          /\ IF currentTrackIndex = index
             THEN /\ lastRemoval' = "active"
                  /\ IF Len(audioTracks') > 0
                     THEN \E randomIndex \in 0 .. Len(audioTracks') - 1 :
                            SelectTrack(randomIndex)
                     ELSE /\ segments' = << >>
                          /\ currentTrackIndex' = 0
                          /\ currentSegmentIndex' = 0
                          /\ UNCHANGED << lastPlayStartTime, sources,
                                          currentSource, started >>
             ELSE /\ lastRemoval' =
                       IF currentTrackIndex > index THEN "before" ELSE "after"
                  /\ UNCHANGED << currentTrackIndex, segments,
                                  currentSegmentIndex, lastPlayStartTime,
                                  sources, currentSource, started >>

\* removeTrack(index)
removeTrack(index) ==
  /\ UNCHANGED << isProcessing, isPlaying, segmentDuration, currentTime,
                  contextState, sourceCount, uploads, resuming, reprocessing,
                  thrown, triggers >>
  /\ IF index < 0 \/ index >= Len(audioTracks)
     THEN UNCHANGED << audioTracks, currentTrackIndex, segments,
                       currentSegmentIndex, lastPlayStartTime, sources,
                       currentSource, started, lastRemoval >>
     ELSE /\ audioTracks' = Splice(audioTracks, index)
          /\ IF currentTrackIndex = index
             THEN /\ lastRemoval' = "active"
                  /\ IF Len(audioTracks') > 0
                     THEN \E randomIndex \in 0 .. Len(audioTracks') - 1 :
                            SelectTrack(randomIndex)
                     ELSE /\ segments' = << >>
                          /\ currentTrackIndex' = 0
                          /\ currentSegmentIndex' = 0
                          /\ UNCHANGED << lastPlayStartTime, sources,
                                          currentSource, started >>
             ELSE /\ lastRemoval' =
                       IF currentTrackIndex > index THEN "before" ELSE "after"
                  /\ currentTrackIndex' =
                       IF currentTrackIndex > index
                       THEN currentTrackIndex - 1 ELSE currentTrackIndex
                  /\ UNCHANGED << segments, currentSegmentIndex,
                                  lastPlayStartTime, sources, currentSource,
                                  started >>

clearSegments ==
  /\ sources' = StopCurrent(sources, currentSource)
  /\ currentSource' = {}
  /\ audioTracks' = << >>
  /\ segments' = << >>
  /\ currentTrackIndex' = 0
  /\ currentSegmentIndex' = 0
  /\ isPlaying' = FALSE
  /\ lastPlayStartTime' = 0
  /\ started' = << >>
  /\ UNCHANGED << isProcessing, segmentDuration, currentTime, contextState,
                  sourceCount, uploads, resuming, reprocessing, thrown,
                  triggers,
                  lastRemoval >>

\* the variables setSegmentDuration and reprocessTracks never touch
ReprocessFrame ==
  UNCHANGED << currentTrackIndex, currentSegmentIndex, isProcessing,
               currentSource, isPlaying, lastPlayStartTime, currentTime,
               contextState, sources, sourceCount, uploads, resuming, thrown,
               started, triggers,
               lastRemoval >>

\* the same without the test of the duration
setSegmentDurationUnguarded(duration) ==
  /\ ReprocessFrame
  /\ segmentDuration' = duration
  /\ audioTracks' = << >>
  /\ segments' = << >>
  /\ reprocessing' = reprocessing \o ReprocessUpTo(audioTracks, duration)

\* setSegmentDuration(duration), with reprocessTracks() up to its first await
setSegmentDuration(duration) ==
  /\ ReprocessFrame
  /\ IF duration > 0
     THEN /\ segmentDuration' = duration
          /\ audioTracks' = << >>
          /\ segments' = << >>
          /\ reprocessing' =
               reprocessing \o ReprocessUpTo(audioTracks, duration)
     ELSE UNCHANGED << segmentDuration, audioTracks, segments, reprocessing >>

\* reprocessTracks: the segments of a track arrive; the track is pushed and
\* the loop runs up to the next await
ReprocessStep(i) ==
  LET call == reprocessing[i]
  IN  /\ ReprocessFrame
      /\ UNCHANGED segmentDuration
      /\ audioTracks' = Append(audioTracks, call.newSegments)
      /\ segments' = IF Len(audioTracks') = 1 THEN call.newSegments
                     ELSE segments
      /\ reprocessing' =
           SubSeq(reprocessing, 1, i - 1)
             \o ReprocessUpTo(call.rest, segmentDuration)
             \o SubSeq(reprocessing, i + 1, Len(reprocessing))

\* ------------------------------------------------------- the AudioContext
\* a resume() awaited by a call has settled: the continuations of the calls
\* run, in the order of their awaits, before any other task
ResumeSettled ==
  /\ contextState = "running"
  /\ resuming # << >> \/ \E k \in DOMAIN uploads : uploads[k].pc = "resume"

\* the context starts running once a resume() has been requested
ContextResumes ==
  /\ contextState = "suspended"
  /\ resuming # << >> \/ \E k \in DOMAIN uploads : uploads[k].pc = "resume"
  /\ contextState' = "running"
  /\ UNCHANGED << audioTracks, currentTrackIndex, segments,
                  currentSegmentIndex, isProcessing, currentSource, isPlaying,
                  segmentDuration, lastPlayStartTime, currentTime, sources,
                  sourceCount, uploads, resuming, reprocessing, thrown,
                  started, triggers,
                  lastRemoval >>

\* the user agent suspends the context (an interruption); its clock stops
ContextSuspends ==
  /\ contextState = "running"
  /\ contextState' = "suspended"
  /\ UNCHANGED << audioTracks, currentTrackIndex, segments,
                  currentSegmentIndex, isProcessing, currentSource, isPlaying,
                  segmentDuration, lastPlayStartTime, currentTime, sources,
                  sourceCount, uploads, resuming, reprocessing, thrown,
                  started, triggers,
                  lastRemoval >>

\* audioContext.currentTime advances by d while the context runs
AdvanceClock(d) ==
  /\ contextState = "running"
  /\ currentTime' = currentTime + d
  /\ UNCHANGED << audioTracks, currentTrackIndex, segments,
                  currentSegmentIndex, isProcessing, currentSource, isPlaying,
                  segmentDuration, lastPlayStartTime, contextState, sources,
                  sourceCount, uploads, resuming, reprocessing, thrown,
                  started, triggers,
                  lastRemoval >>

\* -------------------------------------------- CircleSimulation: the loop
\* a collision callback that is not invoked
onCollisionDropped == UNCHANGED audioVars
\* the collision callback App hands to the simulation
onCollision == PlayNextSegment

\* animate() with running true: update(), draw() and the next frame request.
\* `fired` is the frame callback being run, if this is one; with
\* `callbackStops` the collision callback also calls stop(), which clears
\* running and cancels the frame animationId names before the next frame is
\* requested.
Tick(fired, callbackStops) ==
  LET u == Update(ballCenter, ballVelocity, ballRadius, previousPositions,
                  collisionPoints)
      id == frameCount + 1
      halted == u.collided /\ callbackStops
  IN  /\ ballCenter' = u.center
      /\ ballVelocity' = u.velocity
      /\ ballRadius' = u.radius
      /\ previousPositions' = u.trail
      /\ collisionPoints' = u.decals
      /\ collisionCount' = IF u.collided THEN collisionCount + 1
                           ELSE collisionCount
      /\ IF u.collided THEN onCollision ELSE UNCHANGED audioVars
      /\ running' = ~halted
      /\ frameCount' = id
      /\ animationId' = id
      /\ pendingFrames' =
           ((pendingFrames \ fired)
              \ (IF halted THEN {animationId} ELSE {})) \cup {id}

\* animate() with the collision callback of App
Animate(fired) == Tick(fired, FALSE)

\* the variables only update() and the pointer handlers write
PhysicsFrame ==
  UNCHANGED << ballRadius, ballCenter, ballVelocity, previousPositions,
               collisionPoints, collisionCount >>

\* the variables only the recording methods and the recorder events write
RecordingFrame == UNCHANGED << recordingVars, batchVars >>

TunablesFrame ==
  UNCHANGED << GRAVITY, VELOCITY_INCREASE_FACTOR, VELOCITY_DECAY,
               BALL_GROWTH_RATE >>

\* animate() run without the test of running
AnimationFrameUnguarded(id, callbackStops) ==
  /\ RecordingFrame
  /\ id \in pendingFrames
  /\ \A other \in pendingFrames : id <= other
  /\ TunablesFrame
  /\ UNCHANGED isDragging
  /\ Tick({id}, callbackStops)
\* the browser runs the frame callback `id`: the callbacks run in the order
\* of their requests
AnimationFrameWith(id, callbackStops) ==
  /\ RecordingFrame
  /\ id \in pendingFrames
  /\ \A other \in pendingFrames : id <= other
  /\ TunablesFrame
  /\ UNCHANGED isDragging
  /\ IF running
     THEN Tick({id}, callbackStops)
     ELSE /\ pendingFrames' = pendingFrames \ {id}
          /\ PhysicsFrame
          /\ UNCHANGED << running, frameCount, animationId, audioVars >>

\* the frame callback `id` with the collision callback of App
AnimationFrame(id) == AnimationFrameWith(id, FALSE)

\* start() with a collision callback that calls stop() or not
startWith(callbackStops) ==
  /\ RecordingFrame
  /\ Tick({}, callbackStops)
  /\ TunablesFrame
  /\ UNCHANGED isDragging

\* start() with the collision callback of App
start == startWith(FALSE)

\* stop(): cancelAnimationFrame(this.animationId)
stop ==
  /\ RecordingFrame
  /\ running' = FALSE
  /\ pendingFrames' = pendingFrames \ {animationId}
  /\ PhysicsFrame
  /\ TunablesFrame
  /\ UNCHANGED << isDragging, frameCount, animationId, audioVars >>

reset ==
  /\ RecordingFrame
  /\ ballRadius' = INITIAL_BALL_RADIUS
  /\ ballCenter' = ResetCenter
  /\ ballVelocity' = ResetVelocity
  /\ collisionPoints' = << >>
  /\ previousPositions' = << >>
  /\ TunablesFrame
  /\ UNCHANGED << running, isDragging, animationId, pendingFrames, frameCount,
                  collisionCount, audioVars >>

\* the test of handleMouseDown: the pointer is on the ball
OnBall(x, y) ==
  LET distance == Hypot(FSub(x, ballCenter[1]), FSub(y, ballCenter[2]))
  IN  ~IsNaN(distance) /\ distance <= ballRadius

handleMouseDown(x, y) ==
  /\ RecordingFrame
  /\ TunablesFrame
  /\ PhysicsFrame
  /\ UNCHANGED << frameCount, animationId, audioVars >>
  /\ IF OnBall(x, y)
     THEN /\ isDragging' = TRUE
          /\ running' = FALSE
          /\ pendingFrames' = pendingFrames \ {animationId}
     ELSE UNCHANGED << isDragging, running, pendingFrames >>

handleMouseMove(x, y) ==
  /\ RecordingFrame
  /\ TunablesFrame
  /\ UNCHANGED << running, isDragging, animationId, pendingFrames, frameCount,
                  ballRadius, previousPositions, collisionPoints,
                  collisionCount, audioVars >>
  /\ IF isDragging
     THEN /\ ballCenter' = << x, y >>
          /\ ballVelocity' = << 0, 0 >>
     ELSE UNCHANGED << ballCenter, ballVelocity >>

handleMouseUp ==
  IF isDragging
  THEN /\ isDragging' = FALSE
       /\ running' = TRUE
       /\ Animate({})
       /\ TunablesFrame
       /\ RecordingFrame
  ELSE UNCHANGED vars

setGravity(value) ==
  /\ RecordingFrame
  /\ GRAVITY' = value
  /\ PhysicsFrame
  /\ UNCHANGED << VELOCITY_INCREASE_FACTOR, VELOCITY_DECAY, BALL_GROWTH_RATE,
                  running, isDragging, animationId, pendingFrames, frameCount,
                  audioVars >>

\* setBallGrowthRate(value): BALL_GROWTH_RATE = 1 + value
setBallGrowthRate(value) ==
  /\ RecordingFrame
  /\ BALL_GROWTH_RATE' = Ratio + value
  /\ PhysicsFrame
  /\ UNCHANGED << GRAVITY, VELOCITY_INCREASE_FACTOR, VELOCITY_DECAY,
                  running, isDragging, animationId, pendingFrames, frameCount,
                  audioVars >>

\* ------------------------------------------- CircleSimulation: recording
\* a cleanupResources that leaves the handlers of the recorder in place
DetachNone(recs, ref) ==
  {IF r.id \in ref THEN r ELSE r : r \in recs}
\* cleanupResources: the handlers of the recorder this.mediaRecorder refers
\* to are removed; the recorder itself is left in the state it is in
Detach(recs, ref) ==
  {IF r.id \in ref THEN [r EXCEPT !.handled = FALSE] ELSE r : r \in recs}

\* cleanupResources(): what it does to the ball and to the visual artifacts
\* (its callers give chunks, mediaRecorder and the recorders their values)
cleanupResources ==
  /\ collisionPoints' = << >>
  /\ previousPositions' = << >>
  /\ ballRadius' = INITIAL_BALL_RADIUS
  /\ ballVelocity' = ResetVelocity

\* the variables the recording methods never touch
RecordingLeaves ==
  /\ TunablesFrame
  /\ UNCHANGED << running, isDragging, animationId, pendingFrames, frameCount,
                  ballCenter, collisionCount, audioVars, batchVars >>

\* this.mediaRecorder && this.mediaRecorder.state === 'recording'
Recording ==
  \E r \in recorders : r.id \in mediaRecorder /\ r.state = "recording"

\* startRecording(onComplete, audioStream): setupRecording() makes a new
\* recorder, which is inactive, so the recorder is started
RecorderStarts(onComplete) ==
  LET id == recorderCount + 1
  IN  /\ cleanupResources
      /\ recorders' = Detach(recorders, mediaRecorder) \cup
           {[id |-> id, state |-> "recording", handled |-> TRUE,
             stopping |-> FALSE, flushed |-> FALSE,
             callback |-> onComplete]}
      /\ recorderCount' = id
      /\ mediaRecorder' = {id}
      /\ chunks' = << >>
      /\ onRecordingComplete' = onComplete
      /\ UNCHANGED << completions, stops >>

\* startRecording(onComplete, audioStream) called on its own
startRecording(onComplete) == RecorderStarts(onComplete) /\ RecordingLeaves

\* stopRecording(): MediaRecorder.stop() makes the recorder inactive and
\* queues its dataavailable and stop events
RecorderStops ==
  /\ stops' = Append(stops, Recording)
  /\ recorders' =
       {IF r.id \in mediaRecorder /\ r.state = "recording"
        THEN [r EXCEPT !.state = "inactive", !.stopping = TRUE]
        ELSE r : r \in recorders}
  /\ UNCHANGED << mediaRecorder, chunks, onRecordingComplete, recorderCount,
                  completions, ballRadius, ballVelocity, previousPositions,
                  collisionPoints >>

\* stopRecording() releasing the recorder when no session is recording
stopRecordingReleasing ==
  /\ stops' = Append(stops, Recording)
  /\ recorders' =
       {IF r.id \in mediaRecorder /\ r.state = "recording"
        THEN [r EXCEPT !.state = "inactive", !.stopping = TRUE]
        ELSE r : r \in recorders}
  /\ mediaRecorder' = IF Recording THEN mediaRecorder ELSE {}
  /\ RecordingLeaves
  /\ UNCHANGED << chunks, onRecordingComplete, recorderCount,
                  completions, ballRadius, ballVelocity, previousPositions,
                  collisionPoints >>

\* stopRecording() called on its own
stopRecording == RecorderStops /\ RecordingLeaves

\* the dataavailable event of the stopped recorder r is delivered on its own,
\* the data being of a size above 0 or not: ondataavailable
DataAvailable(r, nonEmpty) ==
  /\ r \in recorders
  /\ r.stopping /\ ~r.flushed
  /\ recorders' = {IF q = r THEN [q EXCEPT !.flushed = TRUE] ELSE q :
                     q \in recorders}
  /\ chunks' = IF r.handled /\ nonEmpty THEN Append(chunks, r.id) ELSE chunks
  /\ RecordingLeaves
  /\ UNCHANGED << mediaRecorder, onRecordingComplete, recorderCount,
                  completions, stops, ballRadius, ballVelocity,
                  previousPositions, collisionPoints >>

\* the events of the stopped recorder r still due are delivered: dataavailable
\* unless it was delivered before, the data being of a size above 0 or not
\* (ondataavailable), then stop (onstop)
RecorderStopped(r, nonEmpty) ==
  LET finalBlob == IF nonEmpty /\ ~r.flushed THEN Append(chunks, r.id)
                   ELSE chunks
      delivered == {IF q = r THEN [q EXCEPT !.stopping = FALSE] ELSE q :
                      q \in recorders}
  IN  /\ r \in recorders
      /\ r.stopping
      /\ RecordingLeaves
      /\ UNCHANGED << onRecordingComplete, recorderCount, stops >>
      /\ IF r.handled
         THEN /\ completions' =
                   IF onRecordingComplete # 0
                   THEN Append(completions,
                          [callback |-> onRecordingComplete,
                           recorder |-> r.id, blob |-> finalBlob])
                   ELSE completions
              /\ cleanupResources
              /\ chunks' = << >>
              /\ recorders' = Detach(delivered, mediaRecorder)
              /\ mediaRecorder' = {}
         ELSE /\ recorders' = delivered
              /\ UNCHANGED << mediaRecorder, chunks, completions, ballRadius,
                              ballVelocity, previousPositions,
                              collisionPoints >>

\* ------------------------------------------------- App: batch recording
\* recordNextSimulation(), up to its first await, recordingCountRef holding
\* done: the batch is over when done has reached the count; otherwise both
\* reset() are called (AudioManager.reset is selectRandomTrack), a session is
\* started with a callback that names the recording, and the call waits for
\* the duration
recordNextSimulation(done, count) ==
  /\ TunablesFrame
  /\ UNCHANGED << running, isDragging, animationId, pendingFrames, frameCount,
                  collisionCount >>
  /\ IF done >= count
     THEN /\ isRecordingBatch' = FALSE
          /\ batch' = [pc |-> "idle", count |-> 0]
          /\ UNCHANGED << ballCenter, ballRadius, ballVelocity,
                          previousPositions, collisionPoints, audioVars,
                          recordingVars >>
     ELSE /\ ballCenter' = ResetCenter
          /\ selectRandomTrack
          /\ RecorderStarts(done + 1)
          /\ isRecordingBatch' = TRUE
          /\ batch' = [pc |-> "recording", count |-> count]

\* startBatchRecording() with the count typed into the field
startBatchRecording(count) ==
  /\ ~isRecordingBatch
  /\ count > 0
  /\ recordingCountRef' = 0
  /\ recordNextSimulation(0, count)

\* the timer of the recording duration fires: stopRecording(), the count is
\* incremented and the call waits 500 ms
BatchDurationElapsed ==
  /\ batch.pc = "recording"
  /\ RecorderStops
  /\ recordingCountRef' = recordingCountRef + 1
  /\ batch' = [batch EXCEPT !.pc = "pause"]
  /\ TunablesFrame
  /\ UNCHANGED << running, isDragging, animationId, pendingFrames, frameCount,
                  ballCenter, collisionCount, audioVars, isRecordingBatch >>

\* the 500 ms have passed: a timer of 500 ms more is set
BatchPauseElapsed ==
  /\ batch.pc = "pause"
  /\ batch' = [batch EXCEPT !.pc = "timer"]
  /\ UNCHANGED << simVars, audioVars, recordingVars, isRecordingBatch,
                  recordingCountRef >>

\* that timer fires: recordNextSimulation()
BatchTimerFired ==
  /\ batch.pc = "timer"
  /\ UNCHANGED recordingCountRef
  /\ recordNextSimulation(recordingCountRef, batch.count)

\* ------------------------------------------------------------------ Init
\* the state after both constructors have run
Init ==
  /\ running = FALSE
  /\ isDragging = FALSE
  /\ animationId = 0
  /\ pendingFrames = {}
  /\ frameCount = 0
  /\ GRAVITY = (4 * Scale) \div 10
  /\ VELOCITY_INCREASE_FACTOR = (102 * Ratio) \div 100
  /\ VELOCITY_DECAY = (9995 * Ratio) \div 10000
  /\ BALL_GROWTH_RATE = (1015 * Ratio) \div 1000
  /\ ballRadius = INITIAL_BALL_RADIUS
  /\ ballCenter = ResetCenter
  /\ ballVelocity = ResetVelocity
  /\ previousPositions = << >>
  /\ collisionPoints = << >>
  /\ collisionCount = 0
  /\ audioTracks = << >>
  /\ currentTrackIndex = 0
  /\ segments = << >>
  /\ currentSegmentIndex = 0
  /\ isProcessing = FALSE
  /\ currentSource = {}
  /\ isPlaying = FALSE
  /\ segmentDuration = 30
  /\ lastPlayStartTime = 0
  /\ currentTime = 0
  /\ contextState = "suspended"
  /\ sources = {}
  /\ sourceCount = 0
  /\ uploads = [k \in 1 .. MaxCalls |-> IdleUpload]
  /\ resuming = << >>
  /\ reprocessing = << >>
  /\ thrown = "none"
  /\ started = << >>
  /\ triggers = << >>
  /\ lastRemoval = "none"
  /\ mediaRecorder = {}
  /\ chunks = << >>
  /\ onRecordingComplete = 0
  /\ recorders = {}
  /\ recorderCount = 0
  /\ completions = << >>
  /\ stops = << >>
  /\ isRecordingBatch = FALSE
  /\ recordingCountRef = 0
  /\ batch = [pc |-> "idle", count |-> 0]

\* ------------------------------------------- the simulation under the user
\* the values the sliders of App hand to the setters, and one below them
GravityValues == {0, (4 * Scale) \div 10}
GrowthValues == {(15 * Ratio) \div 1000, (2 * Ratio) \div 10, -(Ratio \div 10)}
\* where the pointer goes: the ball, the rightmost point of the boundary and
\* the centre of the boundary
PointerPoints ==
  {<< circleCenter[1] + CIRCLE_RADIUS, circleCenter[2] >>, circleCenter}
    \cup (IF IsNaN(ballCenter[1]) \/ IsNaN(ballCenter[2]) THEN {}
          ELSE {ballCenter})

\* the simulation run for at most `frames` ticks, the user acting while at
\* most `window` frames have been requested
SimNext(frames, window) ==
  \/ \E id \in pendingFrames : frameCount < frames /\ AnimationFrame(id)
  \/ frameCount <= window /\ start
  \/ frameCount <= window /\ stop
  \/ frameCount <= window /\ reset
  \/ \E p \in PointerPoints :
       frameCount <= window /\ handleMouseDown(p[1], p[2])
  \/ \E p \in PointerPoints :
       frameCount <= window /\ handleMouseMove(p[1], p[2])
  \/ frameCount <= window /\ handleMouseUp
  \/ \E value \in GravityValues : frameCount <= window /\ setGravity(value)
  \/ \E value \in GrowthValues :
       frameCount <= window /\ setBallGrowthRate(value)

Next == SimNext(MaxFrames, InteractionFrames)

Spec == Init /\ [][Next]_vars

\* ------------------------------------------------ the player under test
\* the audio clock advances in steps of 0.1 s and 0.27 s
ClockSteps == {10, 27}

\* every variable of the simulation
SimFrame == UNCHANGED << simVars, recordingVars, batchVars >>

\* the AudioManager playing the uploaded tracks on the triggers of the
\* collisions, with the context suspended and resumed by the user agent
PlayNext ==
  \/ \E file \in {FileA, FileB} :
       /\ Len(audioTracks) < MaxPlayTracks
       /\ \A k \in DOMAIN uploads : uploads[k].pc = "idle"
       /\ ProcessAudioFile(file) /\ SimFrame
  \/ \E k \in DOMAIN uploads :
       ~ResumeSettled /\ UploadRead(k) /\ SimFrame
  \/ \E k \in DOMAIN uploads :
       ~ResumeSettled /\ UploadDecoded(k) /\ SimFrame
  \/ \E k \in DOMAIN uploads : UploadSplit(k) /\ SimFrame
  \/ \E k \in DOMAIN uploads : UploadResumed(k) /\ SimFrame
  \/ /\ Len(triggers) < MaxTriggers /\ ~ResumeSettled
     /\ PlayNextSegment /\ SimFrame
  \/ PlayResumed /\ SimFrame
  \/ \E s \in sources : ~ResumeSettled /\ SourceEnded(s) /\ SimFrame
  \/ ContextResumes /\ SimFrame
  \/ ~ResumeSettled /\ ContextSuspends /\ SimFrame
  \/ \E d \in ClockSteps :
       /\ currentTime + d <= MaxClock /\ ~ResumeSettled
       /\ AdvanceClock(d) /\ SimFrame

PlaySpec == Init /\ [][PlayNext]_vars

\* ------------------------------------------------- the store under test
\* the AudioManager as a track store: overlapping uploads of files of an
\* accepted and of a refused type, removals and clearing
StoreNext ==
  \/ \E file \in {FileA, FileText, FileCorrupt} :
       /\ Len(audioTracks) < MaxStoreTracks /\ ~ResumeSettled
       /\ ProcessAudioFile(file) /\ SimFrame
  \/ \E k \in DOMAIN uploads :
       ~ResumeSettled /\ UploadRead(k) /\ SimFrame
  \/ \E k \in DOMAIN uploads :
       ~ResumeSettled /\ UploadDecoded(k) /\ SimFrame
  \/ \E k \in DOMAIN uploads : UploadSplit(k) /\ SimFrame
  \/ \E k \in DOMAIN uploads : UploadResumed(k) /\ SimFrame
  \/ ContextResumes /\ SimFrame
  \/ \E index \in 0 .. 1 : ~ResumeSettled /\ removeTrack(index) /\ SimFrame
  \/ ~ResumeSettled /\ clearSegments /\ SimFrame

StoreSpec == Init /\ [][StoreNext]_vars

\* -------------------------------------------- the segmentation under test
\* a few tracks, of files that decode and of one that does not, split and
\* split again as the segment duration changes, selected and removed
RECURSIVE Pending(_)
\* the tracks the suspended calls of reprocessTracks have still to push
Pending(calls) ==
  IF calls = << >> THEN 0
  ELSE 1 + Len(Head(calls).rest) + Pending(Tail(calls))

\* the tracks held, pushed or on their way
TracksHeld ==
  Len(audioTracks) + Pending(reprocessing)
    + Cardinality({k \in DOMAIN uploads :
                     uploads[k].pc \in {"read", "decode", "split"}})

\* the durations typed into the segment duration field: a negative one, none,
\* 0.25 s (two and a half samples of a buffer), 0.3 s and 0.5 s
SegmentDurations == {-30, 0, 25, 30, 50}

SegmentNext ==
  \/ \E file \in {FileA, FileB, FileCorrupt} :
       /\ TracksHeld < MaxSegmentTracks /\ ~ResumeSettled
       /\ ProcessAudioFile(file) /\ SimFrame
  \/ \E k \in DOMAIN uploads :
       ~ResumeSettled /\ UploadRead(k) /\ SimFrame
  \/ \E k \in DOMAIN uploads :
       ~ResumeSettled /\ UploadDecoded(k) /\ SimFrame
  \/ \E k \in DOMAIN uploads : UploadSplit(k) /\ SimFrame
  \/ \E k \in DOMAIN uploads : UploadResumed(k) /\ SimFrame
  \/ ContextResumes /\ SimFrame
  \/ \E duration \in SegmentDurations :
       /\ Len(reprocessing) < MaxReprocessing /\ ~ResumeSettled
       /\ setSegmentDuration(duration) /\ SimFrame
  \/ \E i \in DOMAIN reprocessing : ReprocessStep(i) /\ SimFrame
  \/ ~ResumeSettled /\ selectRandomTrack /\ SimFrame
  \/ \E index \in 0 .. 1 : ~ResumeSettled /\ removeTrack(index) /\ SimFrame

SegmentSpec == Init /\ [][SegmentNext]_vars

\* ------------------------------------------------ the recorder under test
\* the completion callbacks handed to startRecording: none, or one of two
Callbacks == {0, 1, 2}

\* the simulation ticking while recordings are started and stopped and the
\* recorder events delivered
RecordNext ==
  \/ \E onComplete \in Callbacks :
       recorderCount < MaxRecorders /\ startRecording(onComplete)
  \/ Len(stops) < MaxStops /\ stopRecording
  \/ \E r \in recorders, nonEmpty \in BOOLEAN : DataAvailable(r, nonEmpty)
  \/ \E r \in recorders, nonEmpty \in BOOLEAN : RecorderStopped(r, nonEmpty)
  \/ frameCount < MaxRecordFrames /\ start
  \/ \E id \in pendingFrames :
       frameCount < MaxRecordFrames /\ AnimationFrame(id)

RecordSpec == Init /\ [][RecordNext]_vars

\* --------------------------------------------------- the loop under test
\* the simulation started, stopped and dragged, with a collision callback
\* that may call stop()
LoopNext ==
  \/ \E callbackStops \in BOOLEAN :
       frameCount < MaxLoopFrames /\ startWith(callbackStops)
  \/ stop
  \/ \E id \in pendingFrames, callbackStops \in BOOLEAN :
       /\ running => frameCount < MaxLoopFrames
       /\ AnimationFrameWith(id, callbackStops)
  \/ \E p \in PointerPoints : handleMouseDown(p[1], p[2])
  \/ \E p \in PointerPoints : handleMouseMove(p[1], p[2])
  \/ frameCount < MaxLoopFrames /\ handleMouseUp

LoopSpec == Init /\ [][LoopNext]_vars

\* ------------------------------------------------- the removal under test
\* tracks uploaded one after the other, selected, played while the context
\* runs, and removed
RemoveNext ==
  \/ \E file \in {FileA, FileB} :
       /\ Len(audioTracks) < MaxRemoveTracks
       /\ \A k \in DOMAIN uploads : uploads[k].pc = "idle"
       /\ ProcessAudioFile(file) /\ SimFrame
  \/ \E k \in DOMAIN uploads : UploadRead(k) /\ SimFrame
  \/ \E k \in DOMAIN uploads : UploadDecoded(k) /\ SimFrame
  \/ \E k \in DOMAIN uploads : UploadSplit(k) /\ SimFrame
  \/ \E k \in DOMAIN uploads : UploadResumed(k) /\ SimFrame
  \/ ContextResumes /\ SimFrame
  \/ /\ Len(triggers) < MaxRemoveTriggers /\ ~ResumeSettled
     /\ contextState = "running"
     /\ PlayNextSegment /\ SimFrame
  \/ \E s \in sources : ~ResumeSettled /\ SourceEnded(s) /\ SimFrame
  \/ \E d \in ClockSteps :
       /\ currentTime + d <= MaxRemoveClock /\ ~ResumeSettled
       /\ AdvanceClock(d) /\ SimFrame
  \/ ~ResumeSettled /\ selectRandomTrack /\ SimFrame
  \/ \E index \in 0 .. MaxRemoveTracks :
       ~ResumeSettled /\ removeTrack(index) /\ SimFrame

RemoveSpec == Init /\ [][RemoveNext]_vars

\* ------------------------------------------- the duration field under test
\* tracks uploaded one after the other and selected, the segment duration
\* set to any value of the field while no re-segmentation is in flight
DurationNext ==
  \/ \E file \in {FileA, FileB} :
       /\ TracksHeld < MaxDurationTracks /\ ~ResumeSettled
       /\ \A k \in DOMAIN uploads : uploads[k].pc = "idle"
       /\ ProcessAudioFile(file) /\ SimFrame
  \/ \E k \in DOMAIN uploads :
       ~ResumeSettled /\ UploadRead(k) /\ SimFrame
  \/ \E k \in DOMAIN uploads :
       ~ResumeSettled /\ UploadDecoded(k) /\ SimFrame
  \/ \E k \in DOMAIN uploads : UploadSplit(k) /\ SimFrame
  \/ \E k \in DOMAIN uploads : UploadResumed(k) /\ SimFrame
  \/ ContextResumes /\ SimFrame
  \/ \E duration \in SegmentDurations :
       /\ reprocessing = << >> /\ ~ResumeSettled
       /\ setSegmentDuration(duration) /\ SimFrame
  \/ \E i \in DOMAIN reprocessing : ReprocessStep(i) /\ SimFrame
  \/ ~ResumeSettled /\ selectRandomTrack /\ SimFrame

DurationSpec == Init /\ [][DurationNext]_vars

\* ------------------------------------------------ the batch under test
\* batches recorded one after another, the events of the recorders delivered
\* at any time after stop()
BatchNext ==
  \/ \E count \in 1 .. MaxBatchSessions :
       recorderCount + count <= MaxBatchSessions
         /\ startBatchRecording(count)
  \/ BatchDurationElapsed
  \/ BatchPauseElapsed
  \/ BatchTimerFired
  \/ \E r \in recorders, nonEmpty \in BOOLEAN : DataAvailable(r, nonEmpty)
  \/ \E r \in recorders, nonEmpty \in BOOLEAN : RecorderStopped(r, nonEmpty)

BatchSpec == Init /\ [][BatchNext]_vars

\* ================================================================ claims
\* a step in which update() ran, and one in which it resolved a collision
Ticked == frameCount' # frameCount
Collided == collisionCount' # collisionCount

\* |ballVelocity|, NaN when a component is
Speed(v) == Hypot(v[1], v[2])

\* C1: in every tick that runs with a growth rate >= 1 on a radius within
\* [INITIAL_BALL_RADIUS, MAX_BALL_RADIUS], the radius does not decrease and
\* does not exceed MAX_BALL_RADIUS (so it stays within that range, and at or
\* above the initial radius 5).
C1_RadiusMonotoneBounded ==
  [][(/\ Ticked
      /\ BALL_GROWTH_RATE >= Ratio
      /\ ballRadius >= INITIAL_BALL_RADIUS
      /\ ballRadius <= MAX_BALL_RADIUS)
     => /\ ballRadius' >= ballRadius
        /\ ballRadius' <= MAX_BALL_RADIUS]_vars

\* C1 witness: growth at a rate >= 1 has driven the radius into the clamp
C1_Witness ==
  /\ ballRadius = MAX_BALL_RADIUS
  /\ BALL_GROWTH_RATE >= Ratio
  /\ collisionCount > 0

\* C2, as claimed: after every collision resolution the speed is a finite
\* number >= 1.0.
C2_MinimumSpeed ==
  [][Collided =>
       /\ ~IsNaN(Speed(ballVelocity'))
       /\ Speed(ballVelocity') >= minVelocity]_vars

\* C3: the motion trail never holds more than MOTION_BLUR_STEPS entries and
\* the decal list never more than MAX_COLLISION_POINTS; a tick on a full trail
\* drops its oldest entry, keeps the others in order and appends the centre
\* the tick started from, and a collision on a full decal list drops the
\* oldest decal, keeps the others in order and appends one.
C3_BoundedHistory ==
  [][/\ Len(previousPositions') <= MOTION_BLUR_STEPS
     /\ Len(collisionPoints') <= MAX_COLLISION_POINTS
     /\ (Ticked /\ Len(previousPositions) = MOTION_BLUR_STEPS)
          => previousPositions' = Append(Tail(previousPositions), ballCenter)
     /\ (Collided /\ Len(collisionPoints) = MAX_COLLISION_POINTS)
          => /\ Len(collisionPoints') = MAX_COLLISION_POINTS
             /\ SubSeq(collisionPoints', 1, MAX_COLLISION_POINTS - 1)
                  = Tail(collisionPoints)]_vars

\* C3 witness: both buffers are full and the decal list has evicted entries
C3_Witness ==
  /\ Len(previousPositions) = MOTION_BLUR_STEPS
  /\ Len(collisionPoints) = MAX_COLLISION_POINTS
  /\ collisionCount > MAX_COLLISION_POINTS

\* ---------------------------------------------------------------- playback
\* C4: between two source starts (with no selectRandomTrack or clearSegments
\* in between) the clock values read by the two calls of playNextSegment
\* differ by at least 0.9 x segmentDuration, in every interleaving, the calls
\* suspended on audioContext.resume() included.
C4_StartsSpaced ==
  \A i \in 1 .. Len(started) - 1 :
    10 * (started[i + 1].clock - started[i].clock) >= 9 * segmentDuration

\* C5: with a track loaded and segmentDuration 0.3, the first collision, at
\* audio clock 0.0, is accepted: its call starts a source or waits on resume()
\* to start one.
C5_FirstTriggerAccepted ==
  (/\ segmentDuration = 30
   /\ Len(triggers) >= 1
   /\ triggers[1].clock = 0
   /\ triggers[1].ready)
  => Len(started) + Len(resuming) >= 1

\* C6: currentSegmentIndex changes only when a started source reaches the
\* natural end of its buffer, never for a source cut short by stop().
C6_AdvanceOnlyOnNaturalEnd ==
  [][currentSegmentIndex' # currentSegmentIndex
       => \E s \in sources \ sources' :
            ~s.stopped /\ currentTime >= s.endTime]_vars

\* C7: with one active track of n segments and no selection or reset, the
\* segment indices played by the successive accepted triggers are
\* 0, 1, ..., n-1, 0, ... in order.
C7_PlayedInOrder ==
  \A i \in 1 .. Len(started) :
    Len(segments) > 0 => started[i].index = (i - 1) % Len(segments)

\* ------------------------------------------------------------------- store
\* C8: processAudioFile called with a file of an accepted type when the store
\* holds MAX_TRACKS tracks or more fails with the error naming the limit and
\* leaves the track list, the active track, the active segment index and
\* isProcessing unchanged.
C8_CapacityRefusesAcceptedType ==
  [][\A file \in {FileA, FileB, FileCorrupt} :
       (Len(audioTracks) >= MAX_TRACKS /\ ProcessAudioFile(file))
         => /\ thrown' = "capacity"
            /\ UNCHANGED << audioTracks, currentTrackIndex, segments,
                            currentSegmentIndex, isProcessing >>]_vars

\* a full store has refused a file of an accepted type
C8_Witness ==
  /\ Len(audioTracks) = MAX_TRACKS
  /\ thrown = "capacity"
  /\ ~isProcessing

\* C8 as stated: processAudioFile called with any file when the store holds
\* MAX_TRACKS tracks fails with the error naming the limit.
C8_CapacityRefusesEveryFile ==
  [][\A file \in {FileA, FileText} :
       (Len(audioTracks) >= MAX_TRACKS /\ ProcessAudioFile(file))
         => /\ thrown' = "capacity"
            /\ UNCHANGED << audioTracks, currentTrackIndex, segments,
                            currentSegmentIndex, isProcessing >>]_vars

\* C9: audioTracks.length <= MAX_TRACKS in every reachable state.
C9_TracksWithinCapacity == Len(audioTracks) <= MAX_TRACKS

\* ------------------------------------------------------------ segmentation
RECURSIVE SumDurations(_)
SumDurations(track) ==
  IF track = << >> THEN 0
  ELSE Head(track).duration + SumDurations(Tail(track))

\* C10: the duration values of the segments of a track sum to the duration
\* of the buffer they were split from, each segment's duration value being
\* the duration of its buffer (the remainder for the last one).
C10_DurationsSumToSource ==
  \A t \in DOMAIN audioTracks :
    /\ SumDurations(audioTracks[t]) = BufferDuration(fullBuffer(audioTracks[t]))
    /\ \A j \in DOMAIN audioTracks[t] :
         audioTracks[t][j].duration
           = BufferDuration(audioTracks[t][j].buffer)

RECURSIVE FullBuffers(_)
\* the samples of every track of `tracks`, its segments concatenated
FullBuffers(tracks) ==
  IF tracks = << >> THEN << >>
  ELSE << fullBuffer(Head(tracks)) >> \o FullBuffers(Tail(tracks))

RECURSIVE ToPush(_)
\* the samples of the tracks the suspended calls of reprocessTracks have
\* still to push, in the order of their pushes
ToPush(calls) ==
  IF calls = << >> THEN << >>
  ELSE << fullBuffer(Head(calls).newSegments) >>
         \o FullBuffers(Head(calls).rest) \o ToPush(Tail(calls))

\* the samples the store holds, track by track: pushed, or still to be pushed
\* by reprocessTracks
Held(tracks, calls) == FullBuffers(tracks) \o ToPush(calls)

\* C11: setSegmentDuration(d) with d > 0 is lossless: the call and every step
\* of its reprocessTracks keep the tracks, their order and the samples of
\* each, so that the store holds the same samples track by track when the
\* call completes.
C11_ResegmentationLossless ==
  [][((\E d \in SegmentDurations : d > 0 /\ setSegmentDuration(d))
        \/ \E i \in DOMAIN reprocessing : ReprocessStep(i))
       => Held(audioTracks', reprocessing') = Held(audioTracks, reprocessing)
    ]_vars

\* C12: the segment list used for playback is the segment list of the track
\* at currentTrackIndex: a trigger that can be accepted plays
\* audioTracks[currentTrackIndex][currentSegmentIndex].
C12_SegmentsOfActiveTrack ==
  Len(segments) > 0
    => /\ currentTrackIndex < Len(audioTracks)
       /\ segments = audioTracks[currentTrackIndex + 1]

\* --------------------------------------------------------------- recording
\* C13: startRecording called while a session is recording is a no-op: the
\* recorder in use, its handlers, the accumulated chunks and the registered
\* completion callback are unchanged.
C13_StartWhileRecordingNoOp ==
  [][(Recording /\ \E onComplete \in Callbacks : startRecording(onComplete))
       => UNCHANGED << mediaRecorder, recorders, chunks,
                       onRecordingComplete >>]_vars

\* C14: at most one recorder is in the recording state at any time.
C14_OneRecorderRecording ==
  Cardinality({r \in recorders : r.state = "recording"}) <= 1

\* C15: stopRecording called when no session is recording (no recorder, or a
\* recorder that is not recording) changes no state, and no completion
\* callback fires for it: the callbacks fired never outnumber the calls of
\* stopRecording made while a session was recording.
C15_StopWhileIdleNoOp ==
  /\ [][(/\ Len(stops') > Len(stops)
         /\ ~\E r \in recorders :
               r.id \in mediaRecorder /\ r.state = "recording")
          => UNCHANGED << simVars, audioVars, mediaRecorder, chunks,
                          onRecordingComplete, recorders, recorderCount,
                          completions >>]_vars
  /\ [](Len(completions) <= Cardinality({i \in DOMAIN stops : stops[i]}))

\* stopRecording has been called on a session that was recording and then
\* again, before the stop event of the recorder
C15_Witness ==
  /\ Len(stops) = 2
  /\ stops[1]
  /\ ~stops[2]
  /\ \E r \in recorders : r.id \in mediaRecorder /\ r.stopping

\* C16: the stop event of a recorder that stopRecording has stopped invokes
\* the completion callback of its session once, and leaves the chunk buffer
\* empty and the recorder reference cleared, whatever happened in between.
C16_StopCompletesOnce ==
  [][\A r \in recorders :
       (/\ r.stopping
        /\ r.callback # 0
        /\ \E q \in recorders' : q.id = r.id /\ ~q.stopping)
         => /\ Len(completions') = Len(completions) + 1
            /\ completions'[Len(completions')].callback = r.callback
            /\ chunks' = << >>
            /\ mediaRecorder' = {}]_vars

\* C17: startRecording, stopRecording and the finalization of a recording
\* leave ballRadius, ballVelocity, ballCenter, the motion trail and the
\* collision decals unchanged.
C17_RecordingLeavesPhysics ==
  [][((\E onComplete \in Callbacks : startRecording(onComplete))
        \/ stopRecording
        \/ \E r \in recorders, nonEmpty \in BOOLEAN :
             RecorderStopped(r, nonEmpty))
       => UNCHANGED << ballRadius, ballVelocity, ballCenter,
                       previousPositions, collisionPoints >>]_vars

\* -------------------------------------------------------------------- loop
\* C18: after stop() has returned (running is false) no update() executes
\* until the next start(), called by the user or by handleMouseUp: whether
\* stop() was called between frames, from inside the collision callback of a
\* running tick, or after several calls of start().
C18_NoTickWhileStopped ==
  [][(Ticked /\ ~running)
       => \/ \E callbackStops \in BOOLEAN : startWith(callbackStops)
          \/ isDragging /\ handleMouseUp]_vars

\* the collision callback has called stop() in a tick, after several calls
\* of start(): frames are still pending, the one requested by that tick too
C18_Witness ==
  /\ ~running
  /\ collisionCount > 0
  /\ animationId \in pendingFrames
  /\ Cardinality(pendingFrames) >= 2

\* C19: a pointer press inside the ball followed by a release, with any
\* number of move events in between, resumes ticking with ballVelocity = (0,0)
\* at the moment of the release.
C19_ReleaseFromRest ==
  [][(isDragging /\ ~isDragging') => ballVelocity = << 0, 0 >>]_vars

\* ----------------------------------------------------------------- removal
\* C20: removeTrack(i) of a track that stands before the active one
\* decrements the active index by one and leaves the playback segment list
\* and currentSegmentIndex unchanged, so that the same track stays active;
\* removeTrack(i) with i larger than the active index changes neither the
\* active index nor the playback segment list, and the same track stays
\* active.
C20_RemoveOtherTrack ==
  [][\A index \in 0 .. MaxRemoveTracks :
       removeTrack(index) =>
         /\ (index < currentTrackIndex /\ index < Len(audioTracks)) =>
              /\ currentTrackIndex' = currentTrackIndex - 1
              /\ segments' = segments
              /\ currentSegmentIndex' = currentSegmentIndex
              /\ currentTrackIndex < Len(audioTracks) =>
                   audioTracks'[currentTrackIndex' + 1]
                     = audioTracks[currentTrackIndex + 1]
         /\ index > currentTrackIndex =>
              /\ currentTrackIndex' = currentTrackIndex
              /\ segments' = segments
              /\ currentTrackIndex < Len(audioTracks) =>
                   audioTracks'[currentTrackIndex' + 1]
                     = audioTracks[currentTrackIndex + 1]]_vars

\* a track before the active one has been removed while the active track was
\* playing past its first segment
C20_Witness ==
  /\ lastRemoval = "before"
  /\ currentSegmentIndex > 0
  /\ Len(audioTracks) = 1
  /\ segments = audioTracks[1]

\* C21: removeTrack of the active track makes one of the remaining tracks
\* active (active index in range, playback list equal to that track, segment
\* index 0) or, when it was the last track, leaves the store empty with active
\* index 0, segment index 0 and an empty playback list; and every source a
\* trigger starts plays a segment of the playback list, which is a track the
\* store holds, so never a segment of a removed track.
C21_RemoveActiveTrack ==
  /\ [][\A index \in 0 .. MaxRemoveTracks :
          (removeTrack(index) /\ index = currentTrackIndex
             /\ index < Len(audioTracks)) =>
            IF Len(audioTracks) > 1
            THEN /\ currentTrackIndex' \in 0 .. Len(audioTracks') - 1
                 /\ segments' = audioTracks'[currentTrackIndex' + 1]
                 /\ currentSegmentIndex' = 0
            ELSE /\ audioTracks' = << >>
                 /\ segments' = << >>
                 /\ currentTrackIndex' = 0
                 /\ currentSegmentIndex' = 0]_vars
  /\ [][sourceCount' > sourceCount =>
          /\ \E t \in DOMAIN audioTracks : audioTracks[t] = segments
          /\ \E i \in DOMAIN segments :
               started'[Len(started')].buffer = segments[i].buffer]_vars

\* the active track has been removed, the store holds a track and the
\* source a trigger started is the current one
C21_Witness ==
  /\ lastRemoval = "active"
  /\ Len(audioTracks) >= 1
  /\ started # << >>
  /\ \E s \in sources : s.id \in currentSource

\* C22: after selectRandomTrack() on a non-empty store the active index is in
\* [0, track count), currentSegmentIndex is 0 and no source is held as in
\* flight; and the first trigger accepted after the selection plays segment 0,
\* also when a source was playing at the call and its end event is delivered
\* afterwards (`started` holds the sources started since the last selection).
C22_SelectionPlaysFromStart ==
  /\ [][(selectRandomTrack /\ Len(audioTracks) > 0) =>
          /\ currentTrackIndex' \in 0 .. Len(audioTracks) - 1
          /\ currentSegmentIndex' = 0
          /\ currentSource' = {}]_vars
  /\ [](started # << >> => started[1].index = 0)

\* ------------------------------------------------------------------ update
\* C23: update() never leaves a non-finite value (NaN after a division by a
\* distance of zero) in ballCenter or ballVelocity, in any reachable state,
\* those produced by dragging and by a radius grown to the boundary radius
\* included.
C23_UpdateStaysFinite ==
  /\ ~IsNaN(ballCenter[1]) /\ ~IsNaN(ballCenter[2])
  /\ ~IsNaN(ballVelocity[1]) /\ ~IsNaN(ballVelocity[2])

\* ------------------------------------------------------------------ upload
\* C24: processAudioFile on a file whose declared MIME type is not one of
\* audio/mp3, audio/mpeg, audio/wav, audio/ogg fails with the format error
\* before any read or decode is begun, and changes no state (tracks, active
\* track, playback list, isProcessing), whatever the current track count.
C24_UnsupportedFormatRefused ==
  [][ProcessAudioFile(FileText) =>
       /\ thrown' = "format"
       /\ UNCHANGED << audioTracks, currentTrackIndex, currentSegmentIndex,
                       segments, isProcessing, uploads >>]_vars

\* a text file was refused by a store that is full, no call in flight
C24_Witness ==
  /\ thrown = "format"
  /\ Len(audioTracks) = MAX_TRACKS
  /\ \A k \in DOMAIN uploads : uploads[k].pc = "idle"

\* C25: when decodeAudioData rejects the bytes inside processAudioFile the
\* call fails, it adds no track then or later (the call is over), the tracks
\* added before, the active track and the playback list stay as they were,
\* and isProcessing is false afterwards.
C25_DecodeFailureIsolated ==
  [][\A k \in DOMAIN uploads :
       (UploadDecoded(k) /\ ~uploads[k].file.decodable) =>
         /\ thrown' = "process"
         /\ uploads'[k] = IdleUpload
         /\ ~isProcessing'
         /\ UNCHANGED << audioTracks, currentTrackIndex, currentSegmentIndex,
                         segments >>]_vars

\* a file failed to decode after two tracks were added, no call in flight
C25_Witness ==
  /\ thrown = "process"
  /\ Len(audioTracks) >= 2
  /\ ~isProcessing
  /\ \A k \in DOMAIN uploads : uploads[k].pc = "idle"

\* -------------------------------------------------------- segment duration
\* C26: setSegmentDuration(d) with d <= 0 is a no-op: segmentDuration, every
\* track's segments, the playback list, the active track and the segment
\* index are unchanged, and no re-segmentation is begun.
C26_NonPositiveDurationIgnored ==
  [][\A duration \in SegmentDurations :
       (duration <= 0 /\ setSegmentDuration(duration)) =>
         UNCHANGED << segmentDuration, audioTracks, segments,
                      currentTrackIndex, currentSegmentIndex,
                      reprocessing >>]_vars

\* the state setSegmentDuration(0) is called in and leaves: two tracks
\* segmented at 0.5 s, the second one active, no re-segmentation in flight
C26_Witness ==
  /\ Len(audioTracks) = 2
  /\ currentTrackIndex = 1
  /\ segmentDuration = 50
  /\ reprocessing = << >>
  /\ ~ResumeSettled

\* ---------------------------------------------------------------- geometry
\* the ball as reset() leaves it, before any tick
FreshlyReset ==
  /\ ballRadius = INITIAL_BALL_RADIUS
  /\ ballVelocity = ResetVelocity
  /\ previousPositions = << >>
  /\ collisionPoints = << >>

\* distance from ballCenter to the centre of the boundary
DistanceFromCentre ==
  Hypot(FSub(ballCenter[1], circleCenter[1]),
        FSub(ballCenter[2], circleCenter[2]))

\* C27 as stated: for a 1080 x 1920 canvas the boundary radius is 415 and the
\* maximum ball radius 622.5, and the ball in its reset state (centre
\* (540, 1920 / 2.7), radius 5) is not colliding, its distance from the
\* boundary centre being about 327.2, below 410.
C27_ResetDistanceOfSpec ==
  /\ CIRCLE_RADIUS = 415 * Scale
  /\ 2 * MAX_BALL_RADIUS = 1245 * Scale
  /\ FreshlyReset =>
       /\ ballCenter = << 540 * Scale, 71111 >>
       /\ DistanceFromCentre >= 32670 /\ DistanceFromCentre <= 32770
       /\ DistanceFromCentre < 410 * Scale
       /\ ~Colliding(DistanceFromCentre, ballRadius)

\* C27, with the distance the code gives: the boundary radius is 415, the
\* maximum ball radius 622.5, and the ball in its reset state (centre
\* (540, 711.11), radius 5) is not colliding, its distance from the boundary
\* centre being 960 - 711.11 = 248.89, below 410.
C27_ResetGeometry ==
  /\ CIRCLE_RADIUS = 415 * Scale
  /\ 2 * MAX_BALL_RADIUS = 1245 * Scale
  /\ FreshlyReset =>
       /\ ballCenter = << 540 * Scale, 71111 >>
       /\ DistanceFromCentre = 24889
       /\ DistanceFromCentre < 410 * Scale
       /\ ~Colliding(DistanceFromCentre, ballRadius)

\* reset() has put the ball back in the middle of a drag
C27_Witness ==
  /\ FreshlyReset
  /\ isDragging
  /\ ballCenter = ResetCenter

C29_BallInsideBoundary ==
  [][(Ticked /\ ~IsNaN(DistanceFromCentre'))
       => /\ DistanceFromCentre' <= CIRCLE_RADIUS - ballRadius' + 5
          /\ Collided =>
               Abs(DistanceFromCentre' - (CIRCLE_RADIUS - ballRadius')) <= 5]_vars

\* ---------------------------------------------------------------- dragging
\* C30: while the ball is being dragged (isDragging true) the simulation is
\* not running and no update() executes, for any interleaving of the pointer
\* events with calls of start() and stop().
C30_NoTickWhileDragging ==
  /\ [](isDragging => ~running)
  /\ [][Ticked => ~isDragging']_vars

\* ---------------------------------------------------------------- artifact
\* C31: the artifact handed to a completion callback is built from exactly
\* the chunks delivered for the session that has stopped (a chunk is named
\* after the recorder that produced it): it never holds a chunk of an earlier
\* session or of a recorder that a later startRecording replaced, and the
\* chunks waiting in this.chunks are those of the current recorder only.
C31_ArtifactOfOwnChunks ==
  /\ \A i \in DOMAIN completions :
       \A j \in DOMAIN completions[i].blob :
         completions[i].blob[j] = completions[i].recorder
  /\ \A j \in DOMAIN chunks : chunks[j] \in mediaRecorder

\* a recorder was replaced after it was stopped, its data was delivered all
\* the same, and the session that replaced it has completed with its chunk
C31_Witness ==
  /\ \E r \in recorders : r.flushed /\ ~r.handled /\ r.stopping
  /\ \E i \in DOMAIN completions :
       /\ completions[i].blob = << completions[i].recorder >>
       /\ completions[i].recorder > 1

\* C32: a batch runs its sessions one after another, for any delay of the
\* stop event: a cycle that follows another in a batch starts its session only
\* after the completion callback of the recorder before it has fired, and
\* once the batch is over and no stop event is still due, every session of
\* the batch has had its completion callback
C32_BatchSequential ==
  /\ [][batch.pc = "timer" /\ recorderCount' = recorderCount + 1 =>
          \E i \in DOMAIN completions :
            completions[i].recorder = recorderCount]_vars
  /\ [](batch.pc = "idle" /\ (\A r \in recorders : ~r.stopping) =>
          \A id \in 1 .. recorderCount :
            \E i \in DOMAIN completions : completions[i].recorder = id)

\* C33: whenever the list of segments is non-empty, currentSegmentIndex is
\* an integer of 0 .. segments.length - 1
C33_IndexInRange ==
  Len(segments) > 0 =>
    /\ ~IsNaN(currentSegmentIndex)
    /\ currentSegmentIndex \in 0 .. Len(segments) - 1

\* C34: at most one animation-frame callback is pending at any time
C34_OneFramePending == Cardinality(pendingFrames) <= 1

====
